---- MODULE Spec2Model ----
(***************************************************************************)
(* Model of the polling-and-refresh pipeline of bus_display.py             *)
(* (BusDisplayApp): start-up (load_icons, load_config), the Tk timer loop  *)
(* of fetch_data, the background fetch_thread, the handoff to              *)
(* update_display / show_error through root.after, shutdown through        *)
(* on_closing, and the pure parts (request parameters, station /           *)
(* stationboard checks, create_bus_entry).                                 *)
(*                                                                         *)
(* A character is its Unicode code point and a string is a sequence of     *)
(* code points, so that split, strip, lower and the destination regular    *)
(* expression are computed on the characters the code sees. Line numbers,  *)
(* category codes and dictionary keys, which the code only compares or     *)
(* passes on, are plain strings. The wall clock counts whole seconds on    *)
(* one absolute time line; a reading of datetime.now() is a number of      *)
(* microseconds on the same line.                                          *)
(***************************************************************************)
EXTENDS Integers, Sequences, FiniteSets, TLC

(***************************************************************************)
(* Bounds of the model                                                     *)
(***************************************************************************)
\* refresh_interval is drawn from 1..MaxInterval (seconds) in the refresh loop
MaxInterval == 2
\* the refresh loop is followed for MaxClock seconds after start-up
MaxClock == 2
\* longest stationboard array of a response
MaxBoard == 3
\* max_buses is drawn from 1..MaxBusesCfg
MaxBusesCfg == 2
\* update_display is run in each of the seconds 0..MaxNow when rendering
MaxNow == 200
\* most transport types named in one config value
MaxTypes == 3

(***************************************************************************)
(* Program constants                                                       *)
(***************************************************************************)
\* self.root.after(self.refresh_interval * 1000, ...)
MsPerSecond == 1000
\* int((dt - now).total_seconds() / 60)
SecondsPerMinute == 60
\* datetime.now(): a datetime counts microseconds
UsPerSecond == 1000000
\* self.refresh_interval = 30
DefaultRefreshInterval == 30
\* self.max_buses = 20
DefaultMaxBuses == 20

(***************************************************************************)
(* Strings                                                                 *)
(***************************************************************************)
\* "bus"
S_bus == <<98, 117, 115>>
\* "tram"
S_tram == <<116, 114, 97, 109>>
\* "train"
S_train == <<116, 114, 97, 105, 110>>
\* "ship"
S_ship == <<115, 104, 105, 112>>
\* "all"
S_all == <<97, 108, 108>>
\* ""
S_empty == <<>>

\* the class [a-zA-Z\u00C0-\u00FF] of the destination regular expression:
\* a-z, A-Z and the code points 192 (A grave) to 255 (y diaeresis), the
\* multiplication and division signs among them
IsLetter(ch) == ch \in (97..122) \cup (65..90) \cup (192..255)

\* chr(ch).lower() == chr(x), for x a character of ASCII (0..127) and ch any
\* character: a capital letter is the lowercase of nothing; a letter of a-z
\* is the lowercase of itself and of its capital, and k (107) also of the
\* Kelvin sign (8490); any other character of ASCII is the lowercase of
\* itself alone
LowersTo(ch, x) ==
  /\ x \notin 65..90
  /\ \/ ch = x
     \/ x \in 97..122 /\ ch = x - 32
     \/ x = 107 /\ ch = 8490

\* s.lower() == t, for t a string of ASCII characters and s any string:
\* str.lower works character by character, and the one character whose
\* lowercase is longer (304, to i and a combining dot) leaves ASCII
LowerEquals(s, t) ==
  /\ Len(s) = Len(t)
  /\ \A i \in 1..Len(s) : LowersTo(s[i], t[i])

\* the characters str.strip() removes (str.isspace): tab, LF, VT, FF, CR,
\* FS, GS, RS, US, space, NEL, no-break space, and the Unicode spaces above
\* 255
IsSpace(ch) ==
  ch \in (9..13) \cup (28..32) \cup {133, 160, 5760} \cup (8192..8202)
           \cup {8232, 8233, 8239, 8287, 12288}

RECURSIVE LStrip(_)
LStrip(s) == IF s # <<>> /\ IsSpace(Head(s)) THEN LStrip(Tail(s)) ELSE s

RECURSIVE RStrip(_)
RStrip(s) ==
  IF s # <<>> /\ IsSpace(s[Len(s)]) THEN RStrip(SubSeq(s, 1, Len(s) - 1)) ELSE s

\* str.strip()
Strip(s) == RStrip(LStrip(s))

\* ',' in s   (',' is 44)
HasComma(s) == \E i \in 1..Len(s) : s[i] = 44

\* s.split(','): the pieces between commas, empty pieces kept
RECURSIVE SplitAcc(_, _, _)
SplitAcc(s, cur, acc) ==
  IF s = <<>> THEN Append(acc, cur)
  ELSE IF Head(s) = 44 THEN SplitAcc(Tail(s), <<>>, Append(acc, cur))
  ELSE SplitAcc(Tail(s), Append(cur, Head(s)), acc)

Split(s) == SplitAcc(s, <<>>, <<>>)

(***************************************************************************)
(* load_icons                                                              *)
(***************************************************************************)
\* the keys of icon_files, in the order the loop visits them
IconFiles == <<"bus", "tram", "train">>

\* self.transport_icons: None, or a dict whose keys are names
IconsNone == [none |-> TRUE, names |-> {}]
IconsDict(names) == [none |-> FALSE, names |-> names]

\* The icons directory: the icon files that exist, those among them whose
\* reading or rendering raises, and whether cairosvg can be imported.
IconDir(existing, unreadable, cairosvg) ==
  [existing |-> existing, unreadable |-> unreadable, cairosvg |-> cairosvg]

\* the loop of load_icons over the files left, with the icons loaded so far:
\* a missing file is passed over, an exception or a missing cairosvg sets
\* self.transport_icons = None and returns
RECURSIVE LoadIconsFrom(_, _, _)
LoadIconsFrom(files, loaded, dir) ==
  IF files = <<>> THEN IconsDict(loaded)
  ELSE LET icon_name == Head(files)
       IN  IF icon_name \notin dir.existing
             THEN LoadIconsFrom(Tail(files), loaded, dir)
           ELSE IF icon_name \in dir.unreadable THEN IconsNone
           ELSE IF ~dir.cairosvg THEN IconsNone
           ELSE LoadIconsFrom(Tail(files), loaded \cup {icon_name}, dir)

\* if self.transport_icons and icon_type in self.transport_icons
IconShown(icons, icon_type) ==
  ~icons.none /\ icons.names # {} /\ icon_type \in icons.names

(***************************************************************************)
(* Configuration (load_config) and the request parameters (fetch_thread)   *)
(***************************************************************************)
\* Python's None, distinct from every string: no character is negative
None == <<-1>>

\* truth value of a str-or-None: None and '' are false
Truthy(s) == s # None /\ s # <<>>

\* "Mannessplatz"
StationName == <<77, 97, 110, 110, 101, 115, 115, 112, 108, 97, 116, 122>>

\* An option of config.ini as configparser hands it over: "absent" (no such
\* section or option: the fallback is used), "value" (get returns the string
\* s, surrounding whitespace already removed, continuation lines joined by
\* LF), "int" (getint returns v), "bad" (get / getint raises: a bad
\* interpolation, or a value int() rejects).
OptAbsent == [kind |-> "absent", s |-> <<>>, v |-> 0]
OptValue(s) == [kind |-> "value", s |-> s, v |-> 0]
OptInt(v) == [kind |-> "int", s |-> <<>>, v |-> v]
OptBad == [kind |-> "bad", s |-> <<>>, v |-> 0]

\* config.ini: file is "missing", "unparsable" (config.read raises) or "ok"
Ini(file, name, interval, maxb, type) ==
  [file |-> file, name |-> name, refresh_interval |-> interval,
   max_buses |-> maxb, type |-> type]

\* the default values load_config assigns first
Defaults ==
  [station_name |-> StationName,
   refresh_interval |-> DefaultRefreshInterval,
   max_buses |-> DefaultMaxBuses,
   transport_type |-> S_bus]

\* load_config, [Transport] type: the value stripped; 'all' and '' in any
\* case mean no filter
ConfigTransportType(raw) ==
  LET transport_type == Strip(raw)
  IN  IF LowerEquals(transport_type, S_all) \/ LowerEquals(transport_type, S_empty)
        THEN None
        ELSE transport_type

\* load_config: the attributes it leaves on self. The options are read in
\* the order Station.name, Display.refresh_interval, Display.max_buses,
\* Transport.type; an exception ends the reading and keeps what was assigned
\* so far. A missing file keeps the defaults.
ConfigValues(ini) ==
  IF ini.file # "ok" \/ ini.name.kind = "bad" THEN Defaults
  ELSE
    LET s1 == [Defaults EXCEPT !.station_name =
                 IF ini.name.kind = "value" THEN ini.name.s ELSE @]
    IN  IF ini.refresh_interval.kind = "bad" THEN s1
        ELSE
          LET s2 == [s1 EXCEPT !.refresh_interval =
                       IF ini.refresh_interval.kind = "int"
                         THEN ini.refresh_interval.v ELSE @]
          IN  IF ini.max_buses.kind = "bad" THEN s2
              ELSE
                LET s3 == [s2 EXCEPT !.max_buses =
                             IF ini.max_buses.kind = "int"
                               THEN ini.max_buses.v ELSE @]
                IN  IF ini.type.kind = "bad" THEN s3
                    ELSE [s3 EXCEPT !.transport_type =
                            IF ini.type.kind = "value"
                              THEN ConfigTransportType(ini.type.s)
                              ELSE @]

K_station == "station"
K_limit == "limit"
K_transportations == "transportations[]"

\* d[k] = v on a dict
DictSet(d, k, v) ==
  [x \in (DOMAIN d) \cup {k} |-> IF x = k THEN v ELSE d[x]]

\* for t_type in pieces: params['transportations[]'] = t_type.strip()
RECURSIVE AssignEach(_, _)
AssignEach(params, pieces) ==
  IF pieces = <<>> THEN params
  ELSE AssignEach(DictSet(params, K_transportations, Strip(Head(pieces))),
                  Tail(pieces))

\* the params dict fetch_thread hands to requests.get
BuildParams(station, limit, ttype) ==
  LET base == DictSet(DictSet(<<>>, K_station, station), K_limit, limit)
  IN  IF Truthy(ttype)
        THEN IF HasComma(ttype)
               THEN AssignEach(base, Split(ttype))
               ELSE DictSet(base, K_transportations, ttype)
        ELSE base

\* the 'transportations[]' entries of the query string: requests emits one
\* key=value pair for a key bound to a string
TransportEntries(params) ==
  IF K_transportations \in DOMAIN params
    THEN <<params[K_transportations]>>
    ELSE <<>>

(***************************************************************************)
(* create_bus_entry and update_display                                     *)
(***************************************************************************)
\* a timestamp of whole seconds as a datetime (microseconds)
Micros(t) == t * UsPerSecond

\* int(delta.total_seconds() / 60) for a timedelta of delta microseconds:
\* truncation toward zero
TruncMinutes(delta) ==
  IF delta >= 0 THEN delta \div (SecondsPerMinute * UsPerSecond)
  ELSE -((-delta) \div (SecondsPerMinute * UsPerSecond))

\* minutes = int((dt - now).total_seconds() / 60), dt and now in microseconds
MinutesUntil(dt, now) == TruncMinutes(dt - now)

\* the part [^a-zA-Z\u00C0-\u00FF]* of the regular expression: the longest
\* run of characters outside the class
RECURSIVE DropNonLetters(_)
DropNonLetters(s) ==
  IF s # <<>> /\ ~IsLetter(Head(s)) THEN DropNonLetters(Tail(s)) ELSE s

\* the part ^Z[\u00FCu]rich: 'Z', then u-umlaut (252) or 'u' (117), then "rich"
HasCityPrefix(s) ==
  /\ Len(s) >= 6
  /\ s[1] = 90
  /\ s[2] \in {252, 117}
  /\ SubSeq(s, 3, 6) = <<114, 105, 99, 104>>

\* re.sub(r'^Z[\u00FCu]rich[^a-zA-Z\u00C0-\u00FF]*', '', destination)
CleanDestination(s) ==
  IF HasCityPrefix(s) THEN DropNonLetters(SubSeq(s, 7, Len(s))) ELSE s

\* icon_mapping.get(category, 'bus')
IconType(category) ==
  CASE category \in {"B", "BUS"} -> "bus"
    [] category \in {"T", "TRAM"} -> "tram"
    [] category \in {"S", "IC", "IR", "RE", "EC"} -> "train"
    [] OTHER -> "bus"

NoTime == [kind |-> "none", minutes |-> 0]
NoRow == [line |-> "", destination |-> <<>>, time |-> NoTime, icon |-> ""]

\* the departure column: "Now", "in N'" or "N/A"
TimeDisplay(minutes) ==
  IF minutes = 0 THEN [kind |-> "now", minutes |-> 0]
  ELSE [kind |-> "in", minutes |-> minutes]

TimeNA == [kind |-> "na", minutes |-> 0]

\* the widgets of one row: the icon label (icon is "" when none is packed),
\* the line label, the destination label and the time label
Row(bus, now, icons) ==
  LET icon_type == IconType(IF bus.category.present THEN bus.category.s ELSE "")
  IN  [line |-> IF bus.number.present THEN bus.number.s ELSE "N/A",
       destination |-> CleanDestination(bus.to.s),
       time |-> IF bus.dep.kind = "time"
                  THEN TimeDisplay(MinutesUntil(Micros(bus.dep.t), now))
                  ELSE TimeNA,
       icon |-> IF IconShown(icons, icon_type) THEN icon_type ELSE ""]

\* (mutant) create_bus_entry without the "already departed" return
create_bus_entry_NoSkip(bus, now, icons) ==
  IF ~bus.has_stop \/ bus.dep.kind \in {"absent", "bad"} \/ ~bus.to.present
    THEN [outcome |-> "raise", row |-> NoRow]
  ELSE [outcome |-> "row", row |-> Row(bus, now, icons)]

\* One entry of data['stationboard']:
\*   has_stop   'stop' is a key bound to an object
\*   dep        bus['stop']['departure']: kind "absent" (no key), "null",
\*              "empty" (''), "bad" (not ISO-8601) or "time" (t, seconds)
\*   to         bus['to']: present and a string s, or absent
\*   number     bus.get('number'), category  bus.get('category')
\* now is what datetime.now() returns in this call (read only when the
\* departure is a time) and icons is self.transport_icons. create_bus_entry
\* returns "row" (a row was packed), "skip" (early return) or "raise" (an
\* exception left the method).
create_bus_entry(bus, now, icons) ==
  IF ~bus.has_stop \/ bus.dep.kind = "absent"
    THEN [outcome |-> "raise", row |-> NoRow]
  ELSE IF bus.dep.kind = "bad"
    THEN [outcome |-> "raise", row |-> NoRow]
  ELSE IF bus.dep.kind = "time" /\ MinutesUntil(Micros(bus.dep.t), now) < 0
    THEN [outcome |-> "skip", row |-> NoRow]
  ELSE IF ~bus.to.present
    THEN [outcome |-> "raise", row |-> NoRow]
  ELSE [outcome |-> "row", row |-> Row(bus, now, icons)]

\* the call create_bus_entry(bus, i) reads the clock
ReadsClock(bus) == bus.has_stop /\ bus.dep.kind = "time"

\* for i, bus in enumerate(data['stationboard']): self.create_bus_entry(bus, i)
\* nows[i] is the clock reading of the i-th call; an exception ends the loop
\* and leaves the rows packed so far; calls is the number of calls made
RECURSIVE DisplayEntries(_, _, _, _, _)
DisplayEntries(board, nows, icons, rows, calls) ==
  IF board = <<>> THEN [rows |-> rows, raised |-> FALSE, calls |-> calls]
  ELSE LET r == create_bus_entry(Head(board), Head(nows), icons)
       IN  IF r.outcome = "raise"
             THEN [rows |-> rows, raised |-> TRUE, calls |-> calls + 1]
           ELSE DisplayEntries(Tail(board), Tail(nows), icons,
                               IF r.outcome = "row" THEN Append(rows, r.row)
                               ELSE rows,
                               calls + 1)

\* 'station' in data and data['station'] is None
StationIsNull(data) == data.station = "null"

\* 'stationboard' not in data or not data['stationboard']
BoardMissingOrEmpty(data) ==
  data.board_kind \in {"absent", "null"} \/ data.stationboard = <<>>

\* A response body: station is "absent" (no key), "null" or "object";
\* board_kind is "absent", "null" or "list" (then stationboard is the array).
\* The content of the bus list frame after update_display(data), nows[i]
\* being the clock reading of the call for the i-th entry.
update_display(data, nows, icons) ==
  IF StationIsNull(data)
    THEN [kind |-> "not_found", rows |-> <<>>, raised |-> FALSE, msg |-> ""]
  ELSE IF BoardMissingOrEmpty(data)
    THEN [kind |-> "empty", rows |-> <<>>, raised |-> FALSE, msg |-> ""]
  ELSE LET r == DisplayEntries(data.stationboard, nows, icons, <<>>, 0)
       IN  [kind |-> "rows", rows |-> r.rows, raised |-> r.raised, msg |-> ""]

\* the calls of create_bus_entry that update_display(data) makes and that
\* read the clock
ClockReaders(data, nows, icons) ==
  IF StationIsNull(data) \/ BoardMissingOrEmpty(data) THEN {}
  ELSE LET r == DisplayEntries(data.stationboard, nows, icons, <<>>, 0)
       IN  {i \in 1..r.calls : ReadsClock(data.stationboard[i])}

\* show_error(error_msg)
show_error(error_msg) ==
  [kind |-> "error", rows |-> <<>>, raised |-> FALSE, msg |-> error_msg]

\* the bus list frame create_widgets builds: no content
Blank == [kind |-> "blank", rows |-> <<>>, raised |-> FALSE, msg |-> ""]

\* the bus list frame after root.destroy(): the widgets are gone
Destroyed == [kind |-> "destroyed", rows |-> <<>>, raised |-> FALSE, msg |-> ""]

(***************************************************************************)
(* Sample inputs                                                           *)
(***************************************************************************)
\* "Zurich, Bellevue" with u-umlaut
D_Bellevue == <<90, 252, 114, 105, 99, 104, 44, 32, 66, 101, 108, 108, 101, 118, 117, 101>>
\* "Zurich HB"
D_HB == <<90, 117, 114, 105, 99, 104, 32, 72, 66>>
\* "Bern"
D_Bern == <<66, 101, 114, 110>>
\* "Zurich, Amtlerstrasse" with u-umlaut and A-umlaut (196)
D_Aemtler == <<90, 252, 114, 105, 99, 104, 44, 32, 196, 109, 116, 108, 101, 114,
               115, 116, 114, 97, 115, 115, 101>>
\* "Bellevue", a station name
N_Bellevue == <<66, 101, 108, 108, 101, 118, 117, 101>>

Present(s) == [present |-> TRUE, s |-> s]
AbsentStr == [present |-> FALSE, s |-> ""]
AbsentSeq == [present |-> FALSE, s |-> <<>>]
DepTime(t) == [kind |-> "time", t |-> t]
DepKind(k) == [kind |-> k, t |-> 0]

Bus(dep, to, number, category) ==
  [has_stop |-> TRUE, dep |-> dep, to |-> to, number |-> number,
   category |-> category]

\* well-formed records with a departure time
TimedEntry(t) == Bus(DepTime(t), Present(D_Bellevue), Present("31"), Present("B"))
TimedEntry2(t) == Bus(DepTime(t), Present(D_HB), Present("11"), Present("T"))
TimedEntry3(t) == Bus(DepTime(t), Present(D_Aemtler), Present("9"), Present("S"))
\* 'departure': null
NullDepEntry == Bus(DepKind("null"), Present(D_Bern), AbsentStr, Present("IC"))
\* records lacking a required field
NoStopEntry == [Bus(DepKind("absent"), Present(D_Bern), Present("33"), AbsentStr)
                  EXCEPT !.has_stop = FALSE]
NoDepartureEntry == Bus(DepKind("absent"), Present(D_Bern), Present("33"), AbsentStr)
BadDepartureEntry == Bus(DepKind("bad"), Present(D_Bern), Present("33"), AbsentStr)
NoToEntry(t) == Bus(DepTime(t), AbsentSeq, Present("33"), Present("B"))

\* departure timestamps of the sample records (seconds)
T_first == 60
T_second == 150

EntrySet ==
  {TimedEntry(T_first), TimedEntry2(T_second), NullDepEntry, NoStopEntry,
   NoDepartureEntry, BadDepartureEntry, NoToEntry(T_second)}

RECURSIVE SeqsUpTo(_, _)
SeqsUpTo(S, n) ==
  IF n = 0 THEN {<<>>}
  ELSE LET shorter == SeqsUpTo(S, n - 1)
       IN  shorter \cup {Append(q, x) : q \in {r \in shorter : Len(r) = n - 1}, x \in S}

Body(station, board_kind, board) ==
  [station |-> station, board_kind |-> board_kind, stationboard |-> board]

NoData == Body("absent", "absent", <<>>)

StationKinds == {"absent", "null", "object"}

\* response bodies: a station with a board of up to MaxBoard sample
\* records, a board of up to one record for every kind of 'station', and
\* bodies without a board
AllBodies ==
  {Body("object", "list", b) : b \in SeqsUpTo(EntrySet, MaxBoard)}
  \cup {Body(st, "list", b) : st \in StationKinds, b \in SeqsUpTo(EntrySet, 1)}
  \cup {Body(st, k, <<>>) : st \in StationKinds, k \in {"absent", "null"}}

\* response bodies with one timed record, for sweeping now over 0..MaxNow
SingleBodies ==
  {Body("object", "list", <<e>>) :
     e \in {TimedEntry(T_first), TimedEntry2(T_second), TimedEntry3(T_first)}}

\* the seconds in which the sample bodies are shown: the last second in
\* which the first departure is shown and the first in which it is skipped
\* are among them
SampleNows == {0, T_first + 59, T_second - 30}

\* the microseconds of a clock reading within its second
SubSecond == {0, 500000, 999999}

\* the clock readings of n successive calls of create_bus_entry that fall
\* in the seconds secs: datetime.now() never goes back
RECURSIVE Readings(_, _)
Readings(secs, n) ==
  IF n = 0 THEN {<<>>}
  ELSE UNION {{Append(q, r) :
                 r \in {x \in {Micros(sec) + us : sec \in secs, us \in SubSecond} :
                          q = <<>> \/ q[n - 1] <= x}} :
              q \in Readings(secs, n - 1)}

\* the bodies the server returns in the refresh loop: a departure without a
\* time, station not found, empty board
SchedBodies ==
  {Body("object", "list", <<NullDepEntry>>),
   Body("null", "list", <<>>),
   Body("object", "list", <<>>)}

\* ways a request fails: raise_for_status, requests.get (timeout, connection)
\* or response.json raises
ErrorKinds == {"http_status", "timeout", "connection", "invalid_json"}

\* error_msg = f"Error: {str(e)}": the text of the exception is not modelled
ErrorMsg(kind) == "Error: str(e)"

\* [Transport] type values: one to MaxTypes type names, joined by "," or ", "
TypeNames == {S_bus, S_tram, S_train, S_ship}

RECURSIVE JoinTypes(_, _)
JoinTypes(types, seps) ==
  IF Len(types) = 1 THEN types[1]
  ELSE types[1] \o seps[1] \o JoinTypes(Tail(types), Tail(seps))

Separators == {<<44>>, <<44, 32>>}

\* one to MaxTypes different type names, in any order
TypeLists ==
  {ts \in SeqsUpTo(TypeNames, MaxTypes) :
     /\ ts # <<>>
     /\ \A i, j \in 1..Len(ts) : ts[i] = ts[j] => i = j}

\* the texts of a configured filter
Filters ==
  {JoinTypes(p[1], p[2]) :
     p \in {q \in TypeLists \X SeqsUpTo(Separators, MaxTypes - 1) :
              Len(q[2]) = Len(q[1]) - 1}}

\* texts that mean no filter: "all", "ALL", "All", "", and "all" behind a
\* no-break space
NoFilters ==
  {S_all, <<65, 76, 76>>, <<65, 108, 108>>, S_empty, <<160, 97, 108, 108>>}

\* a filter on a continuation line ("bus," LF "tram"), one with a trailing
\* comma ("bus,") and one in capitals ("Tram")
OddFilters ==
  {<<98, 117, 115, 44, 10, 116, 114, 97, 109>>, <<98, 117, 115, 44>>,
   <<84, 114, 97, 109>>}

\* config.ini files that are read to the end
GoodInis ==
  {Ini("ok", name, OptInt(1), OptInt(maxb), OptValue(type)) :
     name \in {OptAbsent, OptValue(N_Bellevue)},
     maxb \in 1..MaxBusesCfg,
     type \in Filters \cup NoFilters \cup OddFilters}

\* config.ini files with a part missing or a value that raises
OddInis ==
  {Ini("missing", OptAbsent, OptAbsent, OptAbsent, OptAbsent),
   Ini("unparsable", OptAbsent, OptAbsent, OptAbsent, OptAbsent),
   Ini("ok", OptAbsent, OptAbsent, OptAbsent, OptAbsent),
   Ini("ok", OptBad, OptInt(1), OptInt(1), OptValue(S_tram)),
   Ini("ok", OptValue(N_Bellevue), OptBad, OptInt(1), OptValue(S_tram)),
   Ini("ok", OptValue(N_Bellevue), OptInt(1), OptBad, OptValue(S_tram)),
   Ini("ok", OptValue(N_Bellevue), OptInt(1), OptInt(1), OptBad),
   Ini("ok", OptValue(N_Bellevue), OptInt(1), OptAbsent, OptAbsent),
   Ini("ok", OptAbsent, OptInt(0), OptInt(1), OptValue(S_tram)),
   Ini("ok", OptAbsent, OptInt(-1), OptInt(1), OptValue(S_tram))}

\* icons directories: every icon renders; no icon file; cairosvg missing;
\* the bus icon alone; the tram icon does not render
IconDirs ==
  {IconDir({"bus", "tram", "train"}, {}, TRUE),
   IconDir({}, {}, TRUE),
   IconDir({"bus", "tram", "train"}, {}, FALSE),
   IconDir({"bus"}, {}, TRUE),
   IconDir({"bus", "tram", "train"}, {"tram"}, TRUE)}

(***************************************************************************)
(* State                                                                   *)
(***************************************************************************)
VARIABLES
  phase,             \* "start", "icons", "loaded", "constructed", "mainloop",
                     \* "destroyed", "exited"
  config_ini,        \* the content of config.ini
  icons_dir,         \* the content of the icons directory
  station_name,      \* self.station_name
  refresh_interval,  \* self.refresh_interval (seconds)
  max_buses,         \* self.max_buses
  transport_type,    \* self.transport_type
  transport_icons,   \* self.transport_icons
  running,           \* self.running
  clock,             \* wall clock, whole seconds
  timers,            \* Tk's pending after() callbacks, in firing order
  cycles,            \* number of fetch threads started so far
  threads,           \* threads[c]: the fetch_thread of cycle c
  display,           \* content of the bus list frame
  rendered           \* the last callback the main loop ran, with its argument

\* the files the program reads
files == <<config_ini, icons_dir>>
\* the attributes load_config assigns
settings == <<station_name, refresh_interval, max_buses, transport_type>>

vars == <<phase, files, settings, transport_icons, running, clock, timers,
          cycles, threads, display, rendered>>

NoRendered == [cycle |-> 0, cb |-> "none", data |-> NoData, nows |-> <<>>]

Timer(due, cb, cycle, data, msg) ==
  [due |-> due, cb |-> cb, cycle |-> cycle, data |-> data, msg |-> msg]

\* Tk keeps its timer list ordered by due time; a new timer goes after the
\* pending ones that are due no later
RECURSIVE InsertTimer(_, _)
InsertTimer(q, t) ==
  IF q = <<>> THEN <<t>>
  ELSE IF t.due < Head(q).due THEN <<t>> \o q
  ELSE <<Head(q)>> \o InsertTimer(Tail(q), t)

\* root.after(0, ...) called within the second in which the refresh timer
\* falls due, and before it does: the new timer goes ahead of the refresh
\* timer and after the pending ones that are due no later
RECURSIVE InsertTimerAhead(_, _)
InsertTimerAhead(q, t) ==
  IF q = <<>> THEN <<t>>
  ELSE IF t.due < Head(q).due \/ (Head(q).cb = "fetch_data" /\ Head(q).due = t.due)
    THEN <<t>> \o q
  ELSE <<Head(q)>> \o InsertTimerAhead(Tail(q), t)

\* root.after(ms, ...): ms milliseconds from now, in whole seconds
\* (Tk takes a negative delay for 0)
AfterDue(now, ms) == IF ms < 0 THEN now ELSE now + (ms \div MsPerSecond)

\* self.root.after(self.refresh_interval * 1000, self.fetch_data)
RefreshDelayMs(interval) == interval * MsPerSecond

\* a fetch thread: state is "inflight" (in requests.get, or in its first
\* root.after), "retrying" (root.after of line 275 raised; in the root.after
\* of the except block since the second retry), "done" (handed over),
\* "raised" (the exception left the thread) or "killed"
Thread(started, params) ==
  [state |-> "inflight", started |-> started, retry |-> 0, params |-> params,
   n_update |-> 0, n_error |-> 0, n_applied |-> 0]

InFlight == {c \in 1..cycles : threads[c].state = "inflight"}

\* the threads that have not handed over or ended yet
Unfinished == {c \in 1..cycles : threads[c].state \in {"inflight", "retrying"}}

\* the model follows the program for MaxClock seconds from its first fetch
Horizon == (IF cycles = 0 THEN 0 ELSE threads[1].started) + MaxClock

\* a handler of the main thread may run across the change of the second:
\* the seconds that pass in it
SecondsPassing == IF clock >= Horizon THEN {0} ELSE {0, 1}

\* a refresh timer is pending
RefreshArmed == \E i \in 1..Len(timers) : timers[i].cb = "fetch_data"

\* results handed to root.after and not yet run
Undelivered(c) ==
  \E i \in 1..Len(timers) : timers[i].cycle = c /\ timers[i].cb # "fetch_data"

\* the refresh timer falls due within the current second and may not have
\* done so yet: no result has been queued behind it
RefreshNotYetDue ==
  \E i \in 1..Len(timers) :
    /\ timers[i].cb = "fetch_data"
    /\ timers[i].due = clock
    /\ \A j \in (i + 1)..Len(timers) : timers[j].cb = "fetch_data"

\* root.after(0, callback, ...) from a fetch thread: Tk orders its timers by
\* their due time in microseconds, so within the second in which the
\* refresh timer falls due the result goes ahead of it or behind it
AfterZero(t, ahead) ==
  /\ ahead => RefreshNotYetDue
  /\ timers' = IF ahead THEN InsertTimerAhead(timers, t) ELSE InsertTimer(timers, t)

(***************************************************************************)
(* Operations                                                              *)
(***************************************************************************)
\* __init__: self.transport_icons = {} and load_icons
load_icons ==
  /\ phase = "start"
  /\ phase' = "icons"
  /\ transport_icons' = LoadIconsFrom(IconFiles, {}, icons_dir)
  /\ UNCHANGED <<files, settings, running, clock, timers, cycles, threads,
                 display, rendered>>

\* load_config
load_config ==
  /\ phase = "icons"
  /\ phase' = "loaded"
  /\ LET self == ConfigValues(config_ini)
     IN  /\ station_name' = self.station_name
         /\ refresh_interval' = self.refresh_interval
         /\ max_buses' = self.max_buses
         /\ transport_type' = self.transport_type
  /\ UNCHANGED <<files, transport_icons, running, clock, timers, cycles,
                 threads, display, rendered>>

\* (mutant) fetch_data without the root.after that schedules the next refresh
StartCycle_NoRearm(q, lag) ==
  /\ cycles' = cycles + 1
  /\ threads' = Append(threads,
                       Thread(clock, BuildParams(station_name, max_buses, transport_type)))
  /\ clock' = clock + lag
  /\ timers' = q

\* the body of fetch_data once self.running holds: the thread is started
\* (it builds its params and blocks in requests.get), then the next refresh
\* is scheduled, lag seconds later by the wall clock (thread.start() waits
\* for the new thread to run, and the second may change before root.after
\* is reached); q holds the other pending callbacks
StartCycle(q, lag) ==
  /\ cycles' = cycles + 1
  /\ threads' = Append(threads,
                       Thread(clock, BuildParams(station_name, max_buses, transport_type)))
  /\ clock' = clock + lag
  /\ timers' = InsertTimer(q, Timer(AfterDue(clock + lag, RefreshDelayMs(refresh_interval)),
                                    "fetch_data", 0, NoData, ""))

\* __init__ from create_widgets on: self.running = True and the first
\* fetch_data
construct ==
  /\ phase = "loaded"
  /\ phase' = "constructed"
  /\ running' = TRUE
  /\ \E lag \in SecondsPassing : StartCycle(timers, lag)
  /\ UNCHANGED <<files, settings, transport_icons, display, rendered>>

\* main() registers on_closing and enters root.mainloop()
enter_mainloop ==
  /\ phase = "constructed"
  /\ phase' = "mainloop"
  /\ UNCHANGED <<files, settings, transport_icons, running, clock, timers,
                 cycles, threads, display, rendered>>

\* the main loop runs the first pending callback once it is due
HeadDue == phase = "mainloop" /\ timers # <<>> /\ Head(timers).due <= clock

\* the refresh timer fires: fetch_data
fetch_data ==
  /\ HeadDue
  /\ Head(timers).cb = "fetch_data"
  /\ IF running
       THEN \E lag \in SecondsPassing : StartCycle(Tail(timers), lag)
       ELSE /\ timers' = Tail(timers)
            /\ UNCHANGED <<cycles, threads, clock>>
  /\ UNCHANGED <<phase, files, settings, transport_icons, running, display,
                 rendered>>

\* requests.get returns a 2xx response whose body parses: the thread hands
\* the data to the main loop
fetch_thread_ok(c, data, ahead) ==
  /\ phase = "mainloop"
  /\ c \in InFlight
  /\ threads' = [threads EXCEPT ![c].state = "done",
                                ![c].n_update = @ + 1]
  /\ AfterZero(Timer(AfterDue(clock, 0), "update_display", c, data, ""), ahead)
  /\ UNCHANGED <<phase, files, settings, transport_icons, running, clock,
                 cycles, display, rendered>>

\* requests.get, raise_for_status or response.json raises, or the
\* root.after of the try block has raised: the thread hands the message to
\* the main loop
fetch_thread_error(c, kind, ahead) ==
  /\ phase = "mainloop"
  /\ c \in Unfinished
  /\ threads' = [threads EXCEPT ![c].state = "done",
                                ![c].n_error = @ + 1]
  /\ AfterZero(Timer(AfterDue(clock, 0), "show_error", c, NoData, ErrorMsg(kind)),
               ahead)
  /\ UNCHANGED <<phase, files, settings, transport_icons, running, clock,
                 cycles, display, rendered>>

\* the request has succeeded before root.mainloop() is entered: the
\* root.after of the try block waits a second for the main loop and
\* raises RuntimeError; the except block catches it and calls root.after
\* again
fetch_thread_ok_no_loop(c) ==
  /\ phase = "constructed"
  /\ c \in InFlight
  /\ clock >= threads[c].started + 1
  /\ threads' = [threads EXCEPT ![c].state = "retrying", ![c].retry = clock]
  /\ UNCHANGED <<phase, files, settings, transport_icons, running, clock,
                 timers, cycles, display, rendered>>

\* the root.after of the except block has waited a second for the main
\* loop before root.mainloop() is entered (the request has failed, or the
\* root.after of the try block has raised): it raises RuntimeError, and
\* the exception leaves the thread
fetch_thread_error_no_loop(c) ==
  /\ phase = "constructed"
  /\ \/ c \in InFlight /\ clock >= threads[c].started + 1
     \/ threads[c].state = "retrying" /\ clock >= threads[c].retry + 1
  /\ threads' = [threads EXCEPT ![c].state = "raised"]
  /\ UNCHANGED <<phase, files, settings, transport_icons, running, clock,
                 timers, cycles, display, rendered>>

\* the request ends after root.destroy(): root.after raises in the try
\* block, and again in the except block, so the exception leaves the thread
fetch_thread_after_destroy(c) ==
  /\ phase = "destroyed"
  /\ c \in Unfinished
  /\ threads' = [threads EXCEPT ![c].state = "raised"]
  /\ UNCHANGED <<phase, files, settings, transport_icons, running, clock,
                 timers, cycles, display, rendered>>

\* the clock was read in the calls of create_bus_entry that read it; every
\* other place of nows repeats the reading before it
ReadingsUsed(data, nows, icons, sec) ==
  \A i \in 1..Len(nows) :
    i \notin ClockReaders(data, nows, icons) =>
      nows[i] = (IF i = 1 THEN Micros(sec) ELSE nows[i - 1])

\* the second of the last clock reading of update_display
LastSecond(nows, sec) ==
  IF nows = <<>> THEN sec ELSE nows[Len(nows)] \div UsPerSecond

\* the main loop runs update_display(data); each call of create_bus_entry
\* that has a departure time reads datetime.now() anew, and the second may
\* change between two readings
run_update_display ==
  /\ HeadDue
  /\ Head(timers).cb = "update_display"
  /\ timers' = Tail(timers)
  /\ \E nows \in Readings({clock + d : d \in SecondsPassing},
                          Len(Head(timers).data.stationboard)) :
       /\ ReadingsUsed(Head(timers).data, nows, transport_icons, clock)
       /\ display' = update_display(Head(timers).data, nows, transport_icons)
       /\ rendered' = [cycle |-> Head(timers).cycle, cb |-> "update_display",
                       data |-> Head(timers).data, nows |-> nows]
       /\ clock' = LastSecond(nows, clock)
  /\ threads' = [threads EXCEPT ![Head(timers).cycle].n_applied = @ + 1]
  /\ UNCHANGED <<phase, files, settings, transport_icons, running, cycles>>

\* the main loop runs show_error(error_msg)
run_show_error ==
  /\ HeadDue
  /\ Head(timers).cb = "show_error"
  /\ timers' = Tail(timers)
  /\ display' = show_error(Head(timers).msg)
  /\ rendered' = [cycle |-> Head(timers).cycle, cb |-> "show_error",
                  data |-> NoData, nows |-> <<>>]
  /\ threads' = [threads EXCEPT ![Head(timers).cycle].n_applied = @ + 1]
  /\ UNCHANGED <<phase, files, settings, transport_icons, running, clock,
                 cycles>>

\* on_closing: self.running = False; self.root.destroy() destroys the
\* widgets, drops the pending callbacks and ends the main loop
on_closing ==
  /\ phase = "mainloop"
  /\ running' = FALSE
  /\ phase' = "destroyed"
  /\ timers' = <<>>
  /\ display' = Destroyed
  /\ UNCHANGED <<files, settings, transport_icons, clock, cycles, threads,
                 rendered>>

\* main() returns: the interpreter exits and its daemon threads end with it
process_exit ==
  /\ phase = "destroyed"
  /\ phase' = "exited"
  /\ threads' = [c \in 1..cycles |->
                   IF c \in Unfinished
                     THEN [threads[c] EXCEPT !.state = "killed"]
                     ELSE threads[c]]
  /\ UNCHANGED <<files, settings, transport_icons, running, clock, timers,
                 cycles, display, rendered>>

\* the wall clock passes to the next second once the first fetch is started.
\* Nothing ties that moment to the work of the main loop or of the threads:
\* a callback that is due may still be pending when the second changes, and
\* a request may stay in flight for any length of time. The model follows
\* the program up to Horizon.
Tick ==
  /\ phase \in {"constructed", "mainloop"}
  /\ clock < Horizon
  /\ clock' = clock + 1
  /\ UNCHANGED <<phase, files, settings, transport_icons, running, timers,
                 cycles, threads, display, rendered>>

(***************************************************************************)
(* The refresh loop, from the start of __init__ on                         *)
(***************************************************************************)
\* "bus, tram"
SchedFilter == <<98, 117, 115, 44, 32, 116, 114, 97, 109>>

\* config.ini of the refresh loop: every refresh interval of 1..MaxInterval
SchedInis ==
  {Ini("ok", OptAbsent, OptInt(interval), OptInt(MaxBusesCfg), OptValue(SchedFilter)) :
     interval \in 1..MaxInterval}

SchedIconDirs == {IconDir({"bus", "tram", "train"}, {}, TRUE)}

\* the state in which __init__ has set self.transport_icons = {} and nothing
\* else: the attributes load_config assigns do not exist yet
InitVars(ini, dir) ==
  /\ phase = "start"
  /\ config_ini = ini
  /\ icons_dir = dir
  /\ station_name = <<>>
  /\ refresh_interval = 0
  /\ max_buses = 0
  /\ transport_type = None
  /\ transport_icons = IconsDict({})
  /\ running = FALSE
  /\ clock = 0
  /\ timers = <<>>
  /\ cycles = 0
  /\ threads = <<>>
  /\ display = Blank
  /\ rendered = NoRendered

Init == \E ini \in SchedInis, dir \in SchedIconDirs : InitVars(ini, dir)

Next ==
  \/ load_icons
  \/ load_config
  \/ construct
  \/ enter_mainloop
  \/ fetch_data
  \/ \E c \in 1..cycles, data \in SchedBodies, ahead \in BOOLEAN :
       fetch_thread_ok(c, data, ahead)
  \/ \E c \in 1..cycles, kind \in ErrorKinds, ahead \in BOOLEAN :
       fetch_thread_error(c, kind, ahead)
  \/ \E c \in 1..cycles : fetch_thread_ok_no_loop(c)
  \/ \E c \in 1..cycles : fetch_thread_error_no_loop(c)
  \/ \E c \in 1..cycles : fetch_thread_after_destroy(c)
  \/ run_update_display
  \/ run_show_error
  \/ on_closing
  \/ process_exit
  \/ Tick

Spec == Init /\ [][Next]_vars

\* what the main thread does next: start up, then run the callback that is
\* due (one of these at most is enabled in a state)
MainThreadStep ==
  \/ load_icons
  \/ load_config
  \/ construct
  \/ enter_mainloop
  \/ fetch_data
  \/ run_update_display
  \/ run_show_error

\* the main thread keeps running and time passes
FairSpec ==
  /\ Spec
  /\ WF_vars(Tick)
  /\ WF_vars(MainThreadStep)

(***************************************************************************)
(* Start-up for every sample config.ini and icons directory                *)
(***************************************************************************)
InitParams ==
  \E ini \in GoodInis \cup OddInis, dir \in IconDirs : InitVars(ini, dir)

NextParams ==
  \/ load_icons
  \/ load_config
  \/ construct

ParamsSpec == InitParams /\ [][NextParams]_vars

(***************************************************************************)
(* update_display on every sample body: the state in which the fetch of    *)
(* cycle 1 has just handed its data to the main loop                       *)
(***************************************************************************)
\* icons directories that leave the dict full, empty, None, or with the bus
\* icon alone
RenderIconDirs == {dir \in IconDirs : dir.unreadable = {}}

\* a body, the second in which update_display runs, max_buses and the icons
\* directory: every sample body in the sample seconds, and the bodies of one
\* timed record in every second, for every max_buses and icons directory
RenderInputs ==
  (AllBodies \X SampleNows \X {MaxBusesCfg} \X SchedIconDirs)
    \cup (SingleBodies \X (0..MaxNow) \X (1..MaxBusesCfg) \X RenderIconDirs)

InitRender ==
  \E in \in RenderInputs :
    LET data == in[1]
        now == in[2]
        maxb == in[3]
        dir == in[4]
        ini == Ini("ok", OptAbsent, OptInt(1), OptInt(maxb), OptValue(S_bus))
        self == ConfigValues(ini)
        params == BuildParams(self.station_name, self.max_buses, self.transport_type)
    IN  /\ phase = "mainloop"
        /\ config_ini = ini
        /\ icons_dir = dir
        /\ station_name = self.station_name
        /\ refresh_interval = self.refresh_interval
        /\ max_buses = self.max_buses
        /\ transport_type = self.transport_type
        /\ transport_icons = LoadIconsFrom(IconFiles, {}, dir)
        /\ running = TRUE
        /\ clock = now
        /\ cycles = 1
        /\ threads = <<[Thread(now, params) EXCEPT !.state = "done", !.n_update = 1]>>
        /\ timers = <<Timer(now, "update_display", 1, data, ""),
                      Timer(AfterDue(now, RefreshDelayMs(self.refresh_interval)),
                            "fetch_data", 0, NoData, "")>>
        /\ display = Blank
        /\ rendered = NoRendered

NextRender == run_update_display

RenderSpec == InitRender /\ [][NextRender]_vars

(***************************************************************************)
(* Claims                                                                  *)
(***************************************************************************)
Scheduled(c) == threads[c].n_update + threads[c].n_error

\* C1: at most one fetch is in flight, and the fetch of cycle N+1 starts
\* only after the result of cycle N has been delivered to update_display or
\* show_error.
C1_AtMostOneFetchInFlight ==
  phase = "mainloop" =>
    /\ Cardinality(InFlight) <= 1
    /\ \A c \in 1..cycles : c < cycles => threads[c].n_applied = 1

\* C2: the refresh timer for the next cycle is armed only after the current
\* cycle's result has been delivered: it is never armed while the current
\* cycle's fetch is still outstanding.
C2_TimerArmedOnlyAfterDelivery ==
  (phase = "mainloop" /\ RefreshArmed) =>
    \A c \in 1..cycles : threads[c].state # "inflight" /\ Scheduled(c) = 1

\* the request of cycle c has ended and its thread went on to root.after
Ended(c) == threads[c].state \in {"done", "raised"}

\* C3: every cycle started by fetch_data hands exactly one outcome to the
\* main loop while the app is running: as long as self.running holds,
\* update_display or show_error was scheduled for a cycle at most once, never
\* both, and once its request has ended and its thread has gone through
\* root.after, exactly once, never neither.
C3_ExactlyOneOutcomePerCycle ==
  running =>
    \A c \in 1..cycles :
      /\ Scheduled(c) <= 1
      /\ Ended(c) => Scheduled(c) = 1

\* C4: after on_closing no further cycle is issued, and a fetch in flight at
\* shutdown that completes afterwards is discarded: nothing is pending or
\* applied for it, and its thread raises no error.
C4_ShutdownDiscardsQuietly ==
  phase \in {"destroyed", "exited"} =>
    /\ ~running
    /\ timers = <<>>
    /\ \A c \in 1..cycles :
         /\ threads[c].state # "raised"
         /\ threads[c].state \in {"inflight", "killed"} =>
              (Scheduled(c) = 0 /\ threads[c].n_applied = 0)

\* the refresh timers pending
RefreshTimers == {i \in 1..Len(timers) : timers[i].cb = "fetch_data"}

\* the seconds in which the pending refresh timers are due
RefreshDues == {timers[i].due : i \in RefreshTimers}

\* the main loop is running and the fetch after the latest cycle is due
\* within the time the model follows
NextFetchInReach ==
  /\ phase = "mainloop"
  /\ \E due \in RefreshDues : due <= Horizon

\* C5: while the app is running every cycle is followed by a new fetch
\* refresh_interval seconds later, whatever its outcome: from the first
\* fetch_data on, whatever has ended and however, exactly one refresh timer
\* is pending, and it is due refresh_interval seconds after the root.after
\* of the latest fetch_data, which is reached in the second in which the
\* cycle started or in the next one; no step other than a new fetch_data
\* (and on_closing) moves, drops or adds a refresh timer, so that no outcome
\* shortens or lengthens the delay; no fetch starts sooner than
\* refresh_interval seconds after the one before it; and the next fetch
\* does start: the main loop does not stay for ever with the same latest
\* cycle when the fetch after it is due within the time the model follows.
C5_NextFetchAfterInterval ==
  /\ [](phase \in {"constructed", "mainloop"} =>
          /\ Cardinality(RefreshTimers) = 1
          /\ \A due \in RefreshDues :
               /\ due >= threads[cycles].started + refresh_interval
               /\ due <= threads[cycles].started + refresh_interval + 1)
  /\ [][(phase' \in {"constructed", "mainloop"} /\ cycles' = cycles) =>
          RefreshDues' = RefreshDues]_vars
  /\ [](\A c \in 1..cycles :
          c > 1 => threads[c].started >= threads[c - 1].started + refresh_interval)
  /\ []<>(~NextFetchInReach)

\* C5 witness: cycle 1 ended in an error that was shown, cycle 2 started
\* refresh_interval seconds after cycle 1 and ended with an empty board that
\* was shown, and cycle 3 started refresh_interval seconds after cycle 2.
C5_Witness ==
  /\ phase = "mainloop"
  /\ cycles = 3
  /\ threads[1].n_error = 1 /\ threads[1].n_applied = 1
  /\ threads[2].n_update = 1 /\ threads[2].n_applied = 1
  /\ threads[2].started = threads[1].started + refresh_interval
  /\ threads[3].state = "inflight"
  /\ threads[3].started = threads[2].started + refresh_interval
  /\ display.kind = "empty"

\* C6: a body whose 'station' key is missing or null is shown as station
\* not found, never as empty, rows or a crash.
C6_StationAbsentOrNullIsNotFound ==
  (rendered.cb = "update_display" /\ rendered.data.station \in {"absent", "null"}) =>
    display.kind = "not_found"

\* the type names a config value lists: its pieces between commas, without
\* the surrounding blanks
ConfiguredTypes(raw) ==
  LET pieces == Split(Strip(raw))
      named == {i \in 1..Len(pieces) : Strip(pieces[i]) # <<>>}
  IN  [names |-> {Strip(pieces[i]) : i \in named}, k |-> Cardinality(named)]

\* C7: a filter naming k >= 1 types gives exactly k 'transportations[]'
\* entries in the request, one per configured type. (config.ini files that
\* load_config reads to the end and whose type value lists one to MaxTypes
\* different names.)
C7_OneFilterEntryPerType ==
  (/\ phase = "constructed"
   /\ cycles >= 1
   /\ config_ini \in GoodInis
   /\ config_ini.type.s \in Filters) =>
    LET entries == TransportEntries(threads[1].params)
        types == ConfiguredTypes(config_ini.type.s)
    IN  /\ Len(entries) = types.k
        /\ \A t \in types.names : \E j \in 1..Len(entries) : entries[j] = t

TimedEntries(board) ==
  {i \in 1..Len(board) : board[i].has_stop /\ board[i].dep.kind = "time"}

TimedRows(rows) == {i \in 1..Len(rows) : rows[i].time.kind \in {"now", "in"}}

\* the calls of create_bus_entry in the last update_display that read the
\* clock
Readers == ClockReaders(rendered.data, rendered.nows, transport_icons)

\* the time from the clock reading of call i to the departure of record i,
\* in microseconds
TimeLeft(i) == Micros(rendered.data.stationboard[i].dep.t) - rendered.nows[i]

\* record i departed a whole minute or more before the clock was read: the
\* records whose minutes, counted toward zero, are negative
MinutesNegative(i) == TimeLeft(i) <= -(SecondsPerMinute * UsPerSecond)

\* the row shows the line and the destination of the record
RowOf(row, bus) ==
  /\ row.line = (IF bus.number.present THEN bus.number.s ELSE "N/A")
  /\ row.destination = CleanDestination(bus.to.s)

\* C8: every displayed row with a known departure time shows a minute
\* count >= 0, "Now" exactly for 0, and is the row of a record whose minutes
\* are not negative; records whose minutes are negative are dropped, so
\* there are no more timed rows than records with minutes >= 0, and a
\* board of one such record shows no row. (For every clock reading, whole
\* seconds or not.)
C8_NoNegativeMinutesShown ==
  rendered.cb = "update_display" =>
    LET board == rendered.data.stationboard
    IN  /\ \A j \in TimedRows(display.rows) :
             /\ display.rows[j].time.minutes >= 0
             /\ display.rows[j].time.kind = "now" <=> display.rows[j].time.minutes = 0
             /\ \E i \in Readers :
                  ~MinutesNegative(i) /\ RowOf(display.rows[j], board[i])
        /\ Cardinality(TimedRows(display.rows)) <=
             Cardinality({i \in Readers : ~MinutesNegative(i)})
        /\ (Len(board) = 1 /\ Readers = {1} /\ MinutesNegative(1)) =>
             display.rows = <<>>

\* C8 witness: the clock was read between two whole seconds; a record that
\* departed more than a minute before was dropped and one that departs
\* within the minute is shown.
C8_Witness ==
  /\ rendered.cb = "update_display"
  /\ \E i \in Readers : MinutesNegative(i) /\ rendered.nows[i] % UsPerSecond # 0
  /\ \E j \in TimedRows(display.rows) : display.rows[j].time.kind = "now"
  /\ Cardinality(TimedRows(display.rows)) < Cardinality(Readers)

\* C9: after update_display at most max_buses rows are displayed.
C9_AtMostMaxBusesRows ==
  rendered.cb = "update_display" => Len(display.rows) <= max_buses

\* C10: the minutes create_bus_entry computes are floor((t - now) / 60): a
\* record with floor < 0 is dropped, any other is shown with that count.
C10_MinutesAreFloor ==
  (/\ rendered.cb = "update_display"
   /\ rendered.data.station = "object"
   /\ rendered.data.board_kind = "list"
   /\ Len(rendered.data.stationboard) = 1
   /\ TimedEntries(rendered.data.stationboard) = {1}
   /\ rendered.data.stationboard[1].to.present) =>
    LET m == TimeLeft(1) \div (SecondsPerMinute * UsPerSecond)
    IN  IF m < 0 THEN display.rows = <<>>
        ELSE Len(display.rows) = 1 /\ display.rows[1].time = TimeDisplay(m)

\* the rows of a board when a record create_bus_entry cannot read is passed
\* over and the records around it are kept
RECURSIVE RowsPassingOver(_, _, _)
RowsPassingOver(board, nows, icons) ==
  IF board = <<>> THEN <<>>
  ELSE LET r == create_bus_entry(Head(board), Head(nows), icons)
       IN  (IF r.outcome = "row" THEN <<r.row>> ELSE <<>>)
             \o RowsPassingOver(Tail(board), Tail(nows), icons)

\* a record lacking a required field: no 'stop', no 'stop.departure' key, an
\* unparsable departure, or no 'to'
Malformed(bus) ==
  \/ ~bus.has_stop
  \/ bus.dep.kind \in {"absent", "bad"}
  \/ ~bus.to.present

\* C11: when an entry of a non-empty stationboard lacks a required field,
\* that entry alone is skipped: no exception leaves update_display, and the
\* well-formed entries before and after it are displayed.
C11_MalformedEntryAloneSkipped ==
  (/\ rendered.cb = "update_display"
   /\ display.kind = "rows"
   /\ \E i \in 1..Len(rendered.data.stationboard) :
        Malformed(rendered.data.stationboard[i])) =>
    /\ ~display.raised
    /\ display.rows =
         RowsPassingOver(rendered.data.stationboard, rendered.nows,
                         transport_icons)

\* a record with a 'stop' object and a destination whose scheduled
\* departure is absent: the 'departure' key is missing or its value is null
DepartureAbsent(bus) ==
  bus.has_stop /\ bus.to.present /\ bus.dep.kind \in {"absent", "null"}

\* the row shows the unknown-time sentinel with the line and the
\* destination of the record
UnknownTimeRow(row, bus) ==
  /\ row.line = (IF bus.number.present THEN bus.number.s ELSE "N/A")
  /\ row.destination = CleanDestination(bus.to.s)
  /\ row.time = TimeNA

\* C12: every record whose scheduled departure is absent (key missing or
\* value null) gets a row with the unknown-time sentinel, its line and its
\* destination; it is never dropped and the cycle does not fail. (Boards
\* whose other records are well formed, so that nothing else can fail.)
C12_AbsentDepartureShownAsUnknown ==
  (/\ rendered.cb = "update_display"
   /\ display.kind = "rows"
   /\ \A i \in 1..Len(rendered.data.stationboard) :
        \/ DepartureAbsent(rendered.data.stationboard[i])
        \/ ~Malformed(rendered.data.stationboard[i])) =>
    /\ ~display.raised
    /\ \A i \in 1..Len(rendered.data.stationboard) :
         DepartureAbsent(rendered.data.stationboard[i]) =>
           \E j \in 1..Len(display.rows) :
             UnknownTimeRow(display.rows[j], rendered.data.stationboard[i])

\* C13: results are applied in the order their fetches were issued: the
\* callback that ran last belongs to the latest cycle among those whose
\* result has been applied, so no earlier result is applied after a later one.
C13_ResultsAppliedInIssueOrder ==
  \A c \in 1..cycles : threads[c].n_applied > 0 => c <= rendered.cycle

====
